---- MODULE Spec2Model ----
(***************************************************************************)
(* Model of proto-derive/src/field/mod.rs: the field dispatcher            *)
(* (Field::new and the uniform contract), the single-assignment guards     *)
(* (set_option, set_bool) and the directive value parsers (bool_attr,      *)
(* word_attr, tag_attr, tags_attr).                                        *)
(*                                                                         *)
(* Integers: TLC's integers are narrower than u64, so a u64 is a sequence  *)
(* of four 16-bit limbs and a u32 a sequence of two, least significant     *)
(* limb first.  The cast to u32 keeps the two low limbs, which is the      *)
(* value modulo 2^32.                                                      *)
(* Strings are sequences of one-character strings.                         *)
(***************************************************************************)
EXTENDS Integers, Sequences, FiniteSets, TLC

VARIABLES
    \* directive value parsers
    attr,        \* the MetaItem handed to a parser
    fn,          \* the parser applied to attr ("" before the call)
    key,         \* the key argument of bool_attr / word_attr
    res,         \* the value the parser returned
    \* single-assignment guards
    option,      \* the Option<T> slot of set_option
    b,           \* the flag of set_bool
    optCalls,    \* the (message, value) arguments of the set_option calls so far
    optRets,     \* what each set_option call returned
    boolCalls,   \* the message arguments of the set_bool calls so far
    boolRets,    \* what each set_bool call returned
    \* Field::new
    rawAttrs,    \* the Vec<Attribute> argument
    attrs,       \* the Vec<MetaItem> after extraction
    pc,          \* position inside Field::new
    consulted,   \* the builders called so far, with the result of each
    result,      \* the value Field::new returned
    \* the uniform contract
    field,       \* a resolved Field
    op,          \* the contract method applied ("" before the call)
    out          \* what the method returned

attrVars  == <<attr, fn, key, res>>
guardVars == <<option, b, optCalls, optRets, boolCalls, boolRets>>
newVars   == <<rawAttrs, attrs, pc, consulted, result>>
fieldVars == <<field, op, out>>
vars      == <<attrVars, guardVars, newVars, fieldVars>>

----------------------------------------------------------------------------
(* Bounds *)

MaxStrLen == 4      \* longest enumerated string payload
MaxItems  == 2      \* longest enumerated list payload
MaxCalls  == 3      \* calls on one slot / one flag
MaxAttrs  == 2      \* raw attributes on one field
MaxNested == 2      \* inner items of one raw attribute
MaxTags   == 3      \* alternatives of a oneof field

----------------------------------------------------------------------------
(* Option / Result *)

None      == <<"None">>
Some(v)   == <<"Some", v>>
Err(e)    == <<"Err", e>>
OkUnit    == <<"Ok">>

IsNone(r) == r[1] = "None"
IsSome(r) == r[1] = "Some"
IsErr(r)  == r[1] = "Err"

Range(s) == {s[i] : i \in 1..Len(s)}

RECURSIVE SeqsUpTo(_, _)
SeqsUpTo(S, n) ==
    IF n = 0 THEN {<<>>}
    ELSE LET shorter == SeqsUpTo(S, n - 1)
         IN  shorter \cup {Append(s, x) : s \in {t \in shorter : Len(t) = n - 1}, x \in S}

----------------------------------------------------------------------------
(* Unsigned integers as limbs *)

Base == 2^16

U32Zero == <<0, 0>>
U32Max  == <<Base - 1, Base - 1>>

\* value as u32, on a u64
AsU32(v) == <<v[1], v[2]>>

\* u32::checked_mul(10) followed by u32::checked_add(d); <<>> on overflow
Overflow == <<>>
CheckedMul10(x) ==
    LET lo == x[1] * 10
        hi == x[2] * 10 + (lo \div Base)
    IN  IF hi >= Base THEN Overflow ELSE <<lo % Base, hi>>
CheckedAdd(x, d) ==
    LET lo == x[1] + d
        hi == x[2] + (lo \div Base)
    IN  IF hi >= Base THEN Overflow ELSE <<lo % Base, hi>>

----------------------------------------------------------------------------
(* Strings *)

DigitChars == <<"0", "1", "2", "3", "4", "5", "6", "7", "8", "9">>
DigitSet   == Range(DigitChars)
DigitVal(c) == (CHOOSE i \in 1..10 : DigitChars[i] = c) - 1

Whitespace == {" "}

EmptyErr        == <<"cannot parse integer from empty string">>
InvalidDigitErr == <<"invalid digit found in string">>
OverflowErr     == <<"number too large to fit in target type">>
ParseBoolErr    == <<"provided string was not true or false">>

\* the digit loop of str::parse::<u32>
RECURSIVE ParseDigits(_, _)
ParseDigits(digits, acc) ==
    IF digits = <<>> THEN Some(acc)
    ELSE IF Head(digits) \notin DigitSet THEN Err(InvalidDigitErr)
    ELSE LET m == CheckedMul10(acc)
         IN  IF m = Overflow THEN Err(OverflowErr)
             ELSE LET a == CheckedAdd(m, DigitVal(Head(digits)))
                  IN  IF a = Overflow THEN Err(OverflowErr)
                      ELSE ParseDigits(Tail(digits), a)

\* s.parse::<u32>(): Some(value) for Ok(value), Err(text of the ParseIntError)
ParseU32(s) ==
    IF s = <<>> THEN Err(EmptyErr)
    ELSE LET digits == IF Head(s) = "+" THEN Tail(s) ELSE s
         IN  IF digits = <<>> THEN Err(EmptyErr)
             ELSE ParseDigits(digits, U32Zero)

\* s.parse::<bool>()
StrTrue  == <<"t", "r", "u", "e">>
StrFalse == <<"f", "a", "l", "s", "e">>
ParseBool(s) ==
    IF s = StrTrue THEN Some(TRUE)
    ELSE IF s = StrFalse THEN Some(FALSE)
    ELSE Err(ParseBoolErr)

\* str::trim
RECURSIVE TrimStart(_)
TrimStart(s) ==
    IF s # <<>> /\ Head(s) \in Whitespace THEN TrimStart(Tail(s)) ELSE s
RECURSIVE TrimEnd(_)
TrimEnd(s) ==
    IF s # <<>> /\ s[Len(s)] \in Whitespace THEN TrimEnd(SubSeq(s, 1, Len(s) - 1)) ELSE s
\* Trim with the end left alone
TrimStartOnly(s) == TrimStart(s)

Trim(s) == TrimEnd(TrimStart(s))

\* str::split on a comma: the segments between the commas, in order
RECURSIVE Split(_, _)
Split(s, cur) ==
    IF s = <<>> THEN <<cur>>
    ELSE IF Head(s) = "," THEN <<cur>> \o Split(Tail(s), <<>>)
    ELSE Split(Tail(s), Append(cur, Head(s)))

----------------------------------------------------------------------------
(* syn::MetaItem, syn::NestedMetaItem, syn::Lit *)

Word(n)         == <<"Word", n>>
List(n, items)  == <<"List", n, items>>
NameValue(n, l) == <<"NameValue", n, l>>

LitStr(s)  == <<"Str", s>>
LitInt(v)  == <<"Int", v>>
LitBool(v) == <<"Bool", v>>
LitChar(c) == <<"Char", c>>

NestedMeta(m) == <<"MetaItem", m>>
Literal(l)    == <<"Literal", l>>

\* MetaItem::name
Name(a) == a[2]

IsLiteralOf(item, kind) == item[1] = "Literal" /\ item[2][1] = kind

----------------------------------------------------------------------------
(* Directive value parsers *)

\* bool_attr without the test of the name
bool_attr_any_name(k, a) ==
    CASE a[1] = "Word" -> Some(TRUE)
      [] a[1] = "List" ->
           IF Len(a[3]) = 1 /\ IsLiteralOf(a[3][1], "Bool")
           THEN Some(a[3][1][2][2])
           ELSE Err(<<"invalid ", k, " attribute">>)
      [] a[1] = "NameValue" /\ a[3][1] = "Str"  -> ParseBool(a[3][2])
      [] a[1] = "NameValue" /\ a[3][1] = "Bool" -> Some(a[3][2])
      [] OTHER -> Err(<<"invalid ", k, " attribute">>)

bool_attr(k, a) ==
    IF Name(a) # k THEN None
    ELSE CASE a[1] = "Word" -> Some(TRUE)
           [] a[1] = "List" ->
                IF Len(a[3]) = 1 /\ IsLiteralOf(a[3][1], "Bool")
                THEN Some(a[3][1][2][2])
                ELSE Err(<<"invalid ", k, " attribute">>)
           [] a[1] = "NameValue" /\ a[3][1] = "Str"  -> ParseBool(a[3][2])
           [] a[1] = "NameValue" /\ a[3][1] = "Bool" -> Some(a[3][2])
           [] OTHER -> Err(<<"invalid ", k, " attribute">>)

\* tag_attr without the string arm
tag_attr_no_str(a) ==
    IF Name(a) # "tag" THEN None
    ELSE CASE a[1] = "List" ->
                IF Len(a[3]) = 1 /\ IsLiteralOf(a[3][1], "Int")
                THEN Some(AsU32(a[3][1][2][2]))
                ELSE Err(<<"invalid tag attribute: ", a>>)
           [] a[1] = "NameValue" /\ a[3][1] = "Int" -> Some(AsU32(a[3][2]))
           [] OTHER -> Err(<<"invalid tag attribute: ", a>>)

tag_attr(a) ==
    IF Name(a) # "tag" THEN None
    ELSE CASE a[1] = "List" ->
                IF Len(a[3]) = 1 /\ IsLiteralOf(a[3][1], "Int")
                THEN Some(AsU32(a[3][1][2][2]))
                ELSE Err(<<"invalid tag attribute: ", a>>)
           [] a[1] = "NameValue" ->
                CASE a[3][1] = "Str" -> ParseU32(a[3][2])
                  [] a[3][1] = "Int" -> Some(AsU32(a[3][2]))
                  [] OTHER -> Err(<<"invalid tag attribute: ", a>>)
           [] OTHER -> Err(<<"invalid tag attribute: ", a>>)

\* the for loop of the list branch: todo are the items still to visit,
\* but the item examined in every iteration is items.first()
RECURSIVE TagsLoop(_, _, _, _)
TagsLoop(a, items, todo, tags) ==
    IF todo = <<>> THEN Some(tags)
    ELSE IF IsLiteralOf(items[1], "Int")
         THEN TagsLoop(a, items, Tail(todo), Append(tags, AsU32(items[1][2][2])))
         ELSE Err(<<"invalid tag attribute: ", a>>)

\* the map/collect of the string branch: the first failing segment is the error
RECURSIVE CollectTags(_, _)
CollectTags(segs, tags) ==
    IF segs = <<>> THEN Some(tags)
    ELSE LET r == ParseU32(Trim(Head(segs)))
         IN  IF IsErr(r) THEN r ELSE CollectTags(Tail(segs), Append(tags, r[2]))

tags_attr(a) ==
    IF Name(a) # "tags" THEN None
    ELSE CASE a[1] = "List" -> TagsLoop(a, a[3], a[3], <<>>)
           [] a[1] = "NameValue" /\ a[3][1] = "Str" ->
                CollectTags(Split(a[3][2], <<>>), <<>>)
           [] OTHER -> Err(<<"invalid tag attribute: ", a>>)

----------------------------------------------------------------------------
(* Inputs of the parsers *)

\* integer literals (u64): 0, 1, 5, 2^16, 2^32 - 1, 2^32, 2^32 + 5, 2^64 - 1
IntVals ==
    { <<0, 0, 0, 0>>, <<1, 0, 0, 0>>, <<5, 0, 0, 0>>, <<0, 1, 0, 0>>,
      <<Base - 1, Base - 1, 0, 0>>,
      <<0, 0, 1, 0>>, <<5, 0, 1, 0>>,
      <<Base - 1, Base - 1, Base - 1, Base - 1>> }

IsZero(v) == \A i \in 1..Len(v) : v[i] = 0

\* the value of a u32 or u64 fits in 32 bits
FitsU32(v) == \A i \in 3..Len(v) : v[i] = 0

\* long division of a limb sequence by ten
RECURSIVE RemFrom(_, _)
RemFrom(v, i) == IF i > Len(v) THEN 0 ELSE (RemFrom(v, i + 1) * Base + v[i]) % 10
Div10(v) == [i \in 1..Len(v) |-> (RemFrom(v, i + 1) * Base + v[i]) \div 10]
Mod10(v) == RemFrom(v, 1)

\* the decimal numeral of an unsigned integer, as written in the source text
RECURSIVE DecDigits(_)
DecDigits(v) == IF IsZero(v) THEN <<>> ELSE Append(DecDigits(Div10(v)), DigitChars[Mod10(v) + 1])
ToDecimal(v) == IF IsZero(v) THEN <<"0">> ELSE DecDigits(v)

Alphabet == {"1", "2", ",", " ", "a", "+"}

ExampleStrs ==
    { StrTrue, StrFalse,
      <<"-", "1">>, <<"a", "b", "c">>,
      <<"1", ",", " ", "2", ",", " ", "3">>,
      <<" ", "2", " ", ",", "1", ",", "0", "5">>,
      <<"1", ",", "4", "2", "9", "4", "9", "6", "7", "2", "9", "6">> }

Strs == SeqsUpTo(Alphabet, MaxStrLen) \cup ExampleStrs \cup {ToDecimal(v) : v \in IntVals}

Lits ==
    {LitStr(s) : s \in Strs} \cup {LitInt(v) : v \in IntVals}
        \cup {LitBool(x) : x \in BOOLEAN} \cup {LitChar("c")}

NestedItems ==
    {Literal(LitInt(v)) : v \in IntVals} \cup {Literal(LitBool(x)) : x \in BOOLEAN}
        \cup {Literal(LitStr(<<"1">>)), NestedMeta(Word("x"))}

Names == {"tag", "tags", "packed"}
Keys  == {"packed", "tag"}

MetaItems ==
    {Word(n) : n \in Names}
        \cup {List(n, items) : n \in Names, items \in SeqsUpTo(NestedItems, MaxItems)}
        \cup {NameValue(n, l) : n \in Names, l \in Lits}

----------------------------------------------------------------------------
(* Idle values of the variables a specification does not use *)

AttrIdle  == attr = Word("tag") /\ fn = "" /\ key = "" /\ res = None
GuardIdle ==
    /\ option = None /\ b = FALSE
    /\ optCalls = <<>> /\ optRets = <<>> /\ boolCalls = <<>> /\ boolRets = <<>>
Pending   == <<"Pending">>
NewIdle   == rawAttrs = <<>> /\ attrs = <<>> /\ pc = "idle" /\ consulted = <<>> /\ result = Pending
FieldIdle == field = <<"Scalar", U32Zero>> /\ op = "" /\ out = None

----------------------------------------------------------------------------
(* Specification of the parsers: one parser is applied to one directive *)

InitAttr ==
    /\ attr \in MetaItems
    /\ fn = "" /\ key = "" /\ res = None
    /\ GuardIdle /\ NewIdle /\ FieldIdle

BoolAttr ==
    /\ fn = ""
    /\ \E k \in Keys :
        /\ key' = k
        /\ res' = bool_attr(k, attr)
    /\ fn' = "bool_attr"
    /\ UNCHANGED <<attr, guardVars, newVars, fieldVars>>

TagAttr ==
    /\ fn = ""
    /\ fn' = "tag_attr"
    /\ res' = tag_attr(attr)
    /\ UNCHANGED <<attr, key, guardVars, newVars, fieldVars>>

TagsAttr ==
    /\ fn = ""
    /\ fn' = "tags_attr"
    /\ res' = tags_attr(attr)
    /\ UNCHANGED <<attr, key, guardVars, newVars, fieldVars>>

NextAttr == BoolAttr \/ TagAttr \/ TagsAttr

SpecAttr == InitAttr /\ [][NextAttr]_vars

----------------------------------------------------------------------------
(* Vocabulary of the properties of the parsers, stated without the parsers *)

\* the u32 with the value of an integer literal that fits in 32 bits
Low32(v) == <<v[1], v[2]>>

\* the name a parser expects
Expected == IF fn = "bool_attr" THEN key ELSE IF fn = "tag_attr" THEN "tag" ELSE "tags"

\* a string without its leading and trailing whitespace
Trimmed(t) ==
    LET solid == {i \in 1..Len(t) : t[i] \notin Whitespace}
    IN  IF solid = {} THEN <<>>
        ELSE SubSeq(t, CHOOSE i \in solid : \A j \in solid : i <= j,
                       CHOOSE i \in solid : \A j \in solid : i >= j)

Unsigned(t)  == IF t # <<>> /\ t[1] = "+" THEN Tail(t) ELSE t
Canonical(d) ==
    LET nonzero == {i \in 1..Len(d) : d[i] # "0"}
    IN  IF nonzero = {} THEN <<"0">>
        ELSE SubSeq(d, CHOOSE i \in nonzero : \A j \in nonzero : i <= j, Len(d))

\* d, e digit strings of the same length: d <= e as numbers
DigitsLeq(d, e) ==
    \/ d = e
    \/ \E i \in 1..Len(d) :
        /\ DigitVal(d[i]) < DigitVal(e[i])
        /\ \A j \in 1..(i - 1) : d[j] = e[j]

MaxNumeral == <<"4", "2", "9", "4", "9", "6", "7", "2", "9", "5">>

\* t is the numeral of an unsigned integer that fits in 32 bits
IsNumeral(t) ==
    LET d == Unsigned(t)
    IN  /\ d # <<>>
        /\ \A i \in 1..Len(d) : d[i] \in DigitSet
        /\ \/ Len(Canonical(d)) < Len(MaxNumeral)
           \/ Len(Canonical(d)) = Len(MaxNumeral) /\ DigitsLeq(Canonical(d), MaxNumeral)

\* the segments of a string between its commas
Commas(t)     == {i \in 1..Len(t) : t[i] = ","}
CommaAt(t, k) ==
    IF k = 0 THEN 0
    ELSE IF k > Cardinality(Commas(t)) THEN Len(t) + 1
    ELSE CHOOSE i \in Commas(t) : Cardinality({j \in Commas(t) : j < i}) = k - 1
Segment(t, k) == SubSeq(t, CommaAt(t, k - 1) + 1, CommaAt(t, k) - 1)
NumSegments(t) == Cardinality(Commas(t)) + 1

\* the payload shapes section 4.3 accepts for each parser
AcceptedShape ==
    CASE fn = "bool_attr" ->
            \/ attr[1] = "Word"
            \/ attr[1] = "List" /\ Len(attr[3]) = 1 /\ IsLiteralOf(attr[3][1], "Bool")
            \/ attr[1] = "NameValue" /\ attr[3][1] = "Bool"
            \/ attr[1] = "NameValue" /\ attr[3][1] = "Str" /\ attr[3][2] \in {StrTrue, StrFalse}
      [] fn = "tag_attr" ->
            \/ attr[1] = "List" /\ Len(attr[3]) = 1 /\ IsLiteralOf(attr[3][1], "Int")
            \/ attr[1] = "NameValue" /\ attr[3][1] = "Int"
            \/ attr[1] = "NameValue" /\ attr[3][1] = "Str" /\ IsNumeral(attr[3][2])
      [] fn = "tags_attr" ->
            \/ attr[1] = "List" /\ \A i \in 1..Len(attr[3]) : IsLiteralOf(attr[3][i], "Int")
            \/ /\ attr[1] = "NameValue" /\ attr[3][1] = "Str"
               /\ \A k \in 1..NumSegments(attr[3][2]) : IsNumeral(Trimmed(Segment(attr[3][2], k)))
      [] OTHER -> FALSE

----------------------------------------------------------------------------
(* Properties of the parsers *)

OutOfRange == {v \in IntVals : ~FitsU32(v)}
InRange    == {v \in IntVals : FitsU32(v)}

\* C4: a tag whose value does not fit in 32 bits is an error in the list
\* form tag(n), the integer form tag = n and the string form tag = "n".
TagOutOfRangeIsError ==
    \A v \in OutOfRange :
        (/\ fn = "tag_attr"
         /\ attr \in { List("tag", <<Literal(LitInt(v))>>),
                       NameValue("tag", LitInt(v)),
                       NameValue("tag", LitStr(ToDecimal(v))) })
            => IsErr(res)

\* C5: tags(a1, ..., an) with integer literals gives Some of the values of
\* the items in source order (items that fit in 32 bits, so that the value
\* of an item is not in question).
TagsListInOrder ==
    (/\ fn = "tags_attr" /\ Name(attr) = "tags" /\ attr[1] = "List"
     /\ \A i \in 1..Len(attr[3]) :
            IsLiteralOf(attr[3][i], "Int") /\ attr[3][i][2][2] \in InRange)
        => res = Some([i \in 1..Len(attr[3]) |-> Low32(attr[3][i][2][2])])

\* C6: a successful result of tags_attr on a directive named tags is not
\* empty and has one element for every item (list form) or segment (string
\* form) of the payload, every item of a list being an integer literal.
TagsNonEmptyAndComplete ==
    (fn = "tags_attr" /\ Name(attr) = "tags" /\ IsSome(res)) =>
        /\ res[2] # <<>>
        /\ attr[1] = "List" =>
            /\ Len(res[2]) = Len(attr[3])
            /\ \A i \in 1..Len(attr[3]) : IsLiteralOf(attr[3][i], "Int")
        /\ attr[1] = "NameValue" => Len(res[2]) = NumSegments(attr[3][2])

\* C7: for n below 2^32 the list form tag(n) and the string form tag = "n"
\* both give Some(n); a string payload with a sign other than + or with a
\* character that is not a digit (such as "-1" and "abc") is an error.
TagParsingEquivalence ==
    fn = "tag_attr" =>
        /\ \A v \in InRange :
            /\ attr = List("tag", <<Literal(LitInt(v))>>) => res = Some(Low32(v))
            /\ attr = NameValue("tag", LitStr(ToDecimal(v))) => res = Some(Low32(v))
        /\ (/\ Name(attr) = "tag" /\ attr[1] = "NameValue" /\ attr[3][1] = "Str"
            /\ \E i \in 1..Len(attr[3][2]) :
                   attr[3][2][i] \notin DigitSet /\ ~(i = 1 /\ attr[3][2][i] = "+"))
              => IsErr(res)

WitnessTagString ==
    /\ fn = "tag_attr"
    /\ attr = NameValue("tag", LitStr(ToDecimal(<<Base - 1, Base - 1, 0, 0>>)))
    /\ res = Some(U32Max)

\* C8: tags = "s" is split on the commas, every segment trimmed and read as
\* an unsigned 32-bit numeral; the result holds the value of every segment in
\* segment order, and is an error as soon as one segment is not a numeral.
TagsStringForm ==
    (fn = "tags_attr" /\ Name(attr) = "tags" /\ attr[1] = "NameValue" /\ attr[3][1] = "Str") =>
        LET t == attr[3][2]
            n == NumSegments(t)
        IN  IF \A k \in 1..n : IsNumeral(Trimmed(Segment(t, k)))
            THEN /\ IsSome(res)
                 /\ Len(res[2]) = n
                 /\ \A k \in 1..n :
                        ToDecimal(res[2][k]) = Canonical(Unsigned(Trimmed(Segment(t, k))))
            ELSE IsErr(res)

WitnessTagsString ==
    /\ fn = "tags_attr"
    /\ attr = NameValue("tags", LitStr(<<"1", ",", " ", "2", ",", " ", "3">>))
    /\ res = Some(<<<<1, 0>>, <<2, 0>>, <<3, 0>>>>)

\* C9: a parser returns None exactly when the name of the directive is not
\* the expected one, whatever the payload, and returns an error only when
\* the name matches and the payload is not an accepted shape.
ThreeWayProbe ==
    fn # "" =>
        /\ Name(attr) # Expected => res = None
        /\ Name(attr) = Expected => ~IsNone(res)
        /\ IsErr(res) => Name(attr) = Expected /\ ~AcceptedShape

WitnessProbeOtherName ==
    /\ fn = "tags_attr"
    /\ attr = NameValue("tag", LitChar("c"))
    /\ res = None

----------------------------------------------------------------------------
(* Label and the single-assignment guards *)

Labels == {"Optional", "Required", "Repeated"}

\* Label::as_str, which is also its Debug and Display form
as_str(label) ==
    CASE label = "Optional" -> "optional"
      [] label = "Required" -> "required"
      [] label = "Repeated" -> "repeated"

\* set_option that overwrites an occupied slot
set_option_overwrite(opt, value, message) == <<Some(value), OkUnit>>

\* set_option for T = Label: the new slot and the returned value.  The text
\* of the error is the sequence of the pieces format! writes.
set_option(opt, value, message) ==
    IF IsSome(opt)
    THEN <<opt, Err(<<message, ": ", as_str(opt[2]), " and ", as_str(value)>>)>>
    ELSE <<Some(value), OkUnit>>

\* set_bool: the new flag and the returned value
set_bool(flag, message) ==
    IF flag THEN <<flag, Err(<<message>>)>> ELSE <<TRUE, OkUnit>>

Messages == {"duplicate label attributes", "duplicate type attributes"}

InitGuard ==
    /\ GuardIdle
    /\ AttrIdle /\ NewIdle /\ FieldIdle

SetOption ==
    /\ Len(optCalls) < MaxCalls
    /\ \E value \in Labels, message \in Messages :
        LET r == set_option(option, value, message)
        IN  /\ option' = r[1]
            /\ optRets' = Append(optRets, r[2])
            /\ optCalls' = Append(optCalls, <<message, value>>)
    /\ UNCHANGED <<b, boolCalls, boolRets, attrVars, newVars, fieldVars>>

SetBool ==
    /\ Len(boolCalls) < MaxCalls
    /\ \E message \in Messages :
        LET r == set_bool(b, message)
        IN  /\ b' = r[1]
            /\ boolRets' = Append(boolRets, r[2])
            /\ boolCalls' = Append(boolCalls, message)
    /\ UNCHANGED <<option, optCalls, optRets, attrVars, newVars, fieldVars>>

NextGuard == SetOption \/ SetBool

SpecGuard == InitGuard /\ [][NextGuard]_vars

\* C3: of the set_option calls on one slot exactly the first succeeds and
\* its value stays in the slot; every later call is an error whose text
\* holds the message, the stored value and the incoming value.  Of the
\* set_bool calls on one flag exactly the first succeeds and the flag stays
\* true.
SingleAssignment ==
    /\ optCalls = <<>> => option = None
    /\ optCalls # <<>> =>
        /\ option = Some(optCalls[1][2])
        /\ optRets[1] = OkUnit
        /\ \A i \in 2..Len(optCalls) :
            /\ IsErr(optRets[i])
            /\ {optCalls[i][1], as_str(optCalls[1][2]), as_str(optCalls[i][2])}
                   \subseteq Range(optRets[i][2])
    /\ b = (boolCalls # <<>>)
    /\ boolCalls # <<>> =>
        /\ boolRets[1] = OkUnit
        /\ \A i \in 2..Len(boolCalls) :
            IsErr(boolRets[i]) /\ boolCalls[i] \in Range(boolRets[i][2])

WitnessSecondAssignment ==
    /\ Len(optCalls) >= 2 /\ optCalls[1][2] # optCalls[2][2]
    /\ IsErr(optRets[2]) /\ option = Some(optCalls[1][2])
    /\ Len(boolCalls) >= 2 /\ IsErr(boolRets[2]) /\ b

----------------------------------------------------------------------------
(* Field::new *)

\* first flat_map: the items of the proto(...) lists, nothing for the rest
RECURSIVE ProtoItems(_)
ProtoItems(raw) ==
    IF raw = <<>> THEN <<>>
    ELSE LET a == Head(raw)
         IN  (IF a[1] = "List" /\ a[2] = "proto" THEN a[3] ELSE <<>>) \o ProtoItems(Tail(raw))

\* the closure of the second flat_map: Result<MetaItem>
ItemClosure(item) ==
    IF item[1] = "MetaItem" THEN Some(item[2])
    ELSE Err(<<"invalid proto attribute: ", item[2]>>)

\* Result as IntoIterator, which is what flat_map iterates: the value of an
\* Ok, nothing for an Err
ResultIntoIter(r) == IF IsErr(r) THEN <<>> ELSE <<r[2]>>

RECURSIVE FlatMapItems(_)
FlatMapItems(items) ==
    IF items = <<>> THEN <<>>
    ELSE ResultIntoIter(ItemClosure(Head(items))) \o FlatMapItems(Tail(items))

Extract(raw) == FlatMapItems(ProtoItems(raw))

\* what a kind builder may return for a directive list: it declines (the
\* only answer to an empty list, which selects no kind), it fails, or it
\* succeeds with a descriptor, given here by its tag or tags
BuilderOutcomes(kind, directives) ==
    IF directives = <<>> THEN {None}
    ELSE
    {None, Err(<<kind, " builder error">>)}
        \cup (IF kind = "Oneof" THEN {Some(<<<<1, 0>>, <<2, 0>>>>)} ELSE {Some(<<1, 0>>)})

RawNested ==
    { NestedMeta(Word("int32")), NestedMeta(NameValue("tag", LitStr(<<"1">>))),
      Literal(LitInt(<<5, 0, 0, 0>>)) }

Attributes ==
    {List("proto", items) : items \in SeqsUpTo(RawNested, MaxNested)}
        \cup { List("doc", <<Literal(LitStr(<<"a">>))>>), Word("test") }

InitNew ==
    /\ rawAttrs \in SeqsUpTo(Attributes, MaxAttrs)
    /\ attrs = <<>> /\ pc = "start" /\ consulted = <<>> /\ result = Pending
    /\ AttrIdle /\ GuardIdle /\ FieldIdle

ExtractAttrs ==
    /\ pc = "start"
    /\ attrs' = Extract(rawAttrs)
    /\ pc' = "Scalar"
    /\ UNCHANGED <<rawAttrs, consulted, result, attrVars, guardVars, fieldVars>>

\* Consult that takes an error of the builder for a decline
ConsultSkippingErrors(kind, next) ==
    /\ pc = kind
    /\ \E r \in BuilderOutcomes(kind, attrs) :
        /\ consulted' = Append(consulted, <<kind, r>>)
        /\ IF IsSome(r) THEN result' = Some(<<kind, r[2]>>) /\ pc' = "done"
           ELSE IF next = "done" THEN result' = Err(<<"no type attribute">>) /\ pc' = "done"
           ELSE result' = result /\ pc' = next
    /\ UNCHANGED <<rawAttrs, attrs, attrVars, guardVars, fieldVars>>

\* one arm of the if-let chain: the builder of the kind is called on attrs;
\* an error returns (the ? operator), Some returns the variant of the kind,
\* None goes on to the next arm, and after the last arm bails
Consult(kind, next) ==
    /\ pc = kind
    /\ \E r \in BuilderOutcomes(kind, attrs) :
        /\ consulted' = Append(consulted, <<kind, r>>)
        /\ IF IsErr(r) THEN result' = r /\ pc' = "done"
           ELSE IF IsSome(r) THEN result' = Some(<<kind, r[2]>>) /\ pc' = "done"
           ELSE IF next = "done" THEN result' = Err(<<"no type attribute">>) /\ pc' = "done"
           ELSE result' = result /\ pc' = next
    /\ UNCHANGED <<rawAttrs, attrs, attrVars, guardVars, fieldVars>>

ConsultScalar  == Consult("Scalar", "Message")
ConsultMessage == Consult("Message", "Map")
ConsultMap     == Consult("Map", "Oneof")
ConsultOneof   == Consult("Oneof", "done")

NextNew == ExtractAttrs \/ ConsultScalar \/ ConsultMessage \/ ConsultMap \/ ConsultOneof

SpecNew == InitNew /\ [][NextNew]_vars

KindOrder == <<"Scalar", "Message", "Map", "Oneof">>

ProtoLiterals == {item[2] : item \in {i \in Range(ProtoItems(rawAttrs)) : i[1] = "Literal"}}

\* the text of an error names a literal
Identifies(text, lit) ==
    Len(text) = 2 /\ text[1] = "invalid proto attribute: " /\ text[2] = lit

\* C2: when an inner item of a proto(...) list is a bare literal, Field::new
\* returns an error that identifies that literal.
LiteralIsRejected ==
    (pc = "done" /\ ProtoLiterals # {}) =>
        IsErr(result) /\ \E lit \in ProtoLiterals : Identifies(result[2], lit)

----------------------------------------------------------------------------
(* The uniform contract of a resolved Field *)

\* a Field is its variant and the descriptor of the kind, of which the model
\* keeps the tag (scalar, message, map) or the tags (oneof)
TagVals == {<<1, 0>>, <<2, 0>>, U32Max}

Fields ==
    {<<kind, t>> : kind \in {"Scalar", "Message", "Map"}, t \in TagVals}
        \cup {<<"Oneof", ts>> : ts \in SeqsUpTo(TagVals, MaxTags)}

Idents == {"x"}

\* the fragment a method of the kind's own descriptor produces
Delegated(f, method, args) == <<"delegated", f[1], method, f[2], args>>

\* quote!(...) fragments, token by token
QuoteUnitStmt == <<"(", ")", ";">>
QuoteOkUnit   == <<"Ok", "(", "(", ")", ")">>
QuoteZero     == <<"0">>
QuoteDefault  == <<"::", "std", "::", "default", "::", "Default", "::", "default", "(", ")">>

\* tags with the singleton arm for every variant
tags_singleton(f) == <<f[2]>>

tags(f) == IF f[1] = "Oneof" THEN f[2] ELSE <<f[2]>>

encode(f, ident) ==
    IF f[1] \in {"Scalar", "Message", "Map"} THEN Delegated(f, "encode", <<ident>>)
    ELSE QuoteUnitStmt

merge(f, ident) ==
    IF f[1] \in {"Scalar", "Message", "Map"} THEN Delegated(f, "merge", <<ident>>)
    ELSE QuoteOkUnit

encoded_len(f, ident) ==
    IF f[1] \in {"Scalar", "Map", "Message"} THEN Delegated(f, "encoded_len", <<ident>>)
    ELSE QuoteZero

default(f) ==
    IF f[1] = "Scalar" THEN Delegated(f, "default", <<>>) ELSE QuoteDefault

methods(f, ident) ==
    IF f[1] \in {"Scalar", "Map"} THEN Delegated(f, "methods", <<ident>>) ELSE None

InitField ==
    /\ field \in Fields /\ op = "" /\ out = None
    /\ AttrIdle /\ GuardIdle /\ NewIdle

Call(method, value) ==
    /\ op = ""
    /\ op' = method
    /\ out' = value
    /\ UNCHANGED <<field, attrVars, guardVars, newVars>>

CallTags       == Call("tags", tags(field))
CallEncode     == \E ident \in Idents : Call("encode", encode(field, ident))
CallMerge      == \E ident \in Idents : Call("merge", merge(field, ident))
CallEncodedLen == \E ident \in Idents : Call("encoded_len", encoded_len(field, ident))
CallDefault    == Call("default", default(field))
CallMethods    == \E ident \in Idents : Call("methods", methods(field, ident))

NextField ==
    CallTags \/ CallEncode \/ CallMerge \/ CallEncodedLen \/ CallDefault \/ CallMethods

SpecField == InitField /\ [][NextField]_vars

\* C10: for a oneof Field encoded_len is the literal zero, encode the no-op
\* statement, merge the unconditional success, methods none and tags() the
\* whole tag list in order; for a scalar, message or map Field tags() is the
\* singleton of the field's tag.
ContractDefaults ==
    /\ (op # "" /\ field[1] = "Oneof") =>
        /\ op = "encoded_len" => out = <<"0">>
        /\ op = "encode" => out = <<"(", ")", ";">>
        /\ op = "merge" => out = <<"Ok", "(", "(", ")", ")">>
        /\ op = "methods" => out = None
        /\ op = "tags" => out = field[2]
    /\ (op = "tags" /\ field[1] # "Oneof") => (Len(out) = 1 /\ out[1] = field[2])

WitnessOneofTags ==
    /\ field[1] = "Oneof" /\ op = "tags"
    /\ Len(field[2]) = 2 /\ field[2][1] # field[2][2] /\ out = field[2]

====
